---- MODULE Spec2Model ----
(***************************************************************************)
(* Model of the transformation pipeline of part2-transformation            *)
(* (run_pipeline.py): enrichment of raw events, gap-based sessionization,  *)
(* transaction deduplication, first/last-click attribution, and the order  *)
(* in which main() computes and writes the four warehouse tables.          *)
(*                                                                         *)
(* Conventions.                                                            *)
(*  - Strings that the code sorts or concatenates (client ids, transaction *)
(*    ids, session ids) are sequences of character codes, so that Python's *)
(*    string order and "+" are modelled by what they do.                   *)
(*  - A nullable value is a sequence of length 0 (None/NaN/NaT) or 1.      *)
(*  - Instants are whole seconds since an arbitrary epoch.                 *)
(***************************************************************************)
EXTENDS Integers, Sequences, FiniteSets, TLC

VARIABLES
    csvs,          \* the partitions found by glob (one raw row each), in sorted order
    columns,       \* the columns of the concatenated raw frame
    timeout_min,   \* args.session_timeout_min
    lookback_days, \* args.lookback_days
    pc,            \* position of main()
    status,        \* "running", "done", or "failed" (an exception left main at step pc)
    stg,           \* stg_events frame (sequence of rows)
    sessions,      \* fct_sessions frame
    orders,        \* fct_orders frame
    attrib,        \* fct_attribution frame
    written,       \* the warehouse tables that this run of main() has written
    warehouse,     \* per table, the run whose file output_dir holds: "none", "previous", "new"
    loaded         \* what the load_csv calls of a monitoring run have read so far

vars == <<csvs, columns, timeout_min, lookback_days, pc, status, stg, sessions, orders, attrib,
          written, warehouse, loaded>>

----------------------------------------------------------------------------
(* Nullable values *)

None == <<>>
Some(v) == <<v>>
IsNone(x) == x = <<>>
NotNa(x) == x # <<>>
Val(x) == x[1]

NaT == None

(* Character codes of the strings the model uses *)
StrA == <<65>>
StrB == <<66>>
StrT1 == <<84, 49>>
StrT2 == <<84, 50>>
StrDash == <<45>>

\* Python's str < str: lexicographic on code points
StrLess(s, t) ==
    \E i \in 1..(Len(t)) :
        /\ \A j \in 1..(i - 1) : j <= Len(s) /\ s[j] = t[j]
        /\ (i > Len(s) \/ s[i] < t[i])

RECURSIVE IntToStr(_)
\* str(n) for n >= 0: decimal digits
IntToStr(n) == IF n < 10 THEN <<48 + n>> ELSE IntToStr(n \div 10) \o <<48 + (n % 10)>>

----------------------------------------------------------------------------
(* Program constants *)

DEFAULT_SESSION_TIMEOUT_MIN == 30
DEFAULT_LOOKBACK_DAYS == 7
SecondsPerMinute == 60
SecondsPerDay == 86400

(* Bounds of the model *)
MaxEvents == 3

----------------------------------------------------------------------------
(* Raw rows.                                                               *)
(*   client_id, clientId : nullable string                                 *)
(*   timestamp  : nullable text; the text either parses to an instant      *)
(*                (ok = TRUE, sec) or does not (ok = FALSE)                *)
(*   event_name : string                                                   *)
(*   event_data : nullable text; json names what json.loads makes of it    *)
(*                ("object", "nonobject", "invalid", "blank")              *)
(*   page_url   : nullable text; its query is a sequence of <<key, value>> *)
(*   referrer   : nullable text; host is its netloc as written             *)
(*   user_agent : nullable text; the set of marker words it contains, the  *)
(*                empty set for the empty text                             *)
(***************************************************************************)

AllColumns == {"client_id", "clientId", "timestamp", "event_name", "event_data",
               "page_url", "referrer", "user_agent"}

\* columns that build_stg_events cannot do without: df[...] raises KeyError on a missing
\* column, and df.get(...) returns None, whose .apply raises AttributeError
RequiredColumns == {"client_id", "timestamp", "referrer", "page_url", "user_agent", "event_data"}

\* pd.to_datetime(s, utc=True, errors="coerce"): NaT for null or unparsable text
_safe_dt(timestamp) ==
    IF NotNa(timestamp) /\ Val(timestamp).ok THEN Some(Val(timestamp).sec) ELSE NaT

\* str.lower() on the host names of the model
Lower(h) ==
    CASE h = "WWW.Google.com" -> "www.google.com"
      [] h = "Puffy.com" -> "puffy.com"
      [] OTHER -> h

\* urlparse(ref).netloc.lower(), None for a null or empty referrer
_ref_domain(ref) == IF IsNone(ref) THEN None ELSE Some(Lower(Val(ref).host))

\* parse_qs(urlparse(url).query): pairs with a blank value are dropped
_query_dict(url) ==
    IF IsNone(url) THEN <<>> ELSE SelectSeq(Val(url).query, LAMBDA kv : kv[2] # "")

_query_keys(url) == {_query_dict(url)[i][1] : i \in 1..Len(_query_dict(url))}

\* d.get(key, [None])[0]: the first value of the key, None when the key is absent
QueryFirst(qd, key) ==
    IF \E i \in 1..Len(qd) : qd[i][1] = key
    THEN Some(qd[CHOOSE i \in 1..Len(qd) :
                    qd[i][1] = key /\ \A j \in 1..(i - 1) : qd[j][1] # key][2])
    ELSE None

\* k.startswith("utm_") on the query keys of the model
StartsWithUtm(k) == k \in {"utm_source", "utm_medium", "utm_campaign", "utm_term", "utm_id"}

\* ref_domain.endswith("puffy.com") on the host names of the model
EndsWithPuffy(h) == h \in {"puffy.com", "www.puffy.com", "notpuffy.com"}

_marketing_source(page_url, ref_domain) ==
    LET keys == _query_keys(page_url) IN
    IF \E k \in {"gclid", "gbraid", "wbraid", "gad_source"} : k \in keys THEN "google_ads"
    ELSE IF "fbclid" \in keys THEN "meta_ads"
    ELSE IF "ttclid" \in keys THEN "tiktok_ads"
    ELSE IF "msclkid" \in keys THEN "microsoft_ads"
    ELSE IF \E k \in keys : StartsWithUtm(k) THEN "utm_tagged"
    ELSE IF ref_domain \in {Some("google.com"), Some("www.google.com")} THEN "google_organic"
    ELSE IF ref_domain \in {Some("bing.com"), Some("www.bing.com")} THEN "bing_organic"
    ELSE IF IsNone(ref_domain) THEN "direct"
    ELSE IF EndsWithPuffy(Val(ref_domain)) THEN "internal"
    ELSE "other_referrer"

\* user_agent.lower() on the marker words of the model
LowerWords(ws) ==
    {CASE w = "iPad" -> "ipad" [] w = "iPhone" -> "iphone" [] w = "Android" -> "android"
       [] w = "Mobile" -> "mobile" [] w = "Tablet" -> "tablet" [] OTHER -> w : w \in ws}

\* the mobile markers tested before the tablet markers
_device_type_mobile_first(user_agent) ==
    IF IsNone(user_agent) \/ Val(user_agent) = {} THEN None
    ELSE LET ua == LowerWords(Val(user_agent)) IN
         IF "iphone" \in ua \/ "android" \in ua \/ "mobile" \in ua THEN Some("mobile")
         ELSE IF "ipad" \in ua \/ "tablet" \in ua THEN Some("tablet")
         ELSE Some("desktop")

_device_type(user_agent) ==
    IF IsNone(user_agent) \/ Val(user_agent) = {} THEN None
    ELSE LET ua == LowerWords(Val(user_agent)) IN
         IF "ipad" \in ua \/ "tablet" \in ua THEN Some("tablet")
         ELSE IF "iphone" \in ua \/ "android" \in ua \/ "mobile" \in ua THEN Some("mobile")
         ELSE Some("desktop")

\* the empty dict {} that _parse_event_data returns for null, blank or invalid text
EmptyDict == [json |-> "object", transaction_id |-> None, revenue |-> None, items |-> <<"absent", 0>>]

_parse_event_data(s) ==
    IF IsNone(s) \/ Val(s).json = "blank" \/ Val(s).json = "invalid" THEN EmptyDict ELSE Val(s)

\* len(d.get("items", [])) if it is a list, else None
ItemsCount(d) ==
    CASE d.items[1] = "absent" -> Some(0)
      [] d.items[1] = "list" -> Some(d.items[2])
      [] OTHER -> None

\* df["client_id"].fillna(df.get("clientId"))
CanonicalClientId(r) == IF NotNa(r.client_id) THEN r.client_id ELSE r.clientId

\* one row of the frame build_stg_events returns; i is the 0-based row position
EnrichRow(r, i) ==
    LET rd == _ref_domain(r.referrer)
        qd == _query_dict(r.page_url)
        ed == _parse_event_data(r.event_data)
    IN [event_id |-> i,
        client_id |-> CanonicalClientId(r),
        clientId |-> r.clientId,
        timestamp |-> r.timestamp,
        ts |-> _safe_dt(r.timestamp),
        event_name |-> r.event_name,
        event_data |-> r.event_data,
        page_url |-> r.page_url,
        referrer |-> r.referrer,
        user_agent |-> r.user_agent,
        ref_domain |-> rd,
        utm_source |-> QueryFirst(qd, "utm_source"),
        utm_medium |-> QueryFirst(qd, "utm_medium"),
        utm_campaign |-> QueryFirst(qd, "utm_campaign"),
        marketing_source |-> _marketing_source(r.page_url, rd),
        device_type |-> _device_type(r.user_agent),
        transaction_id |-> ed.transaction_id,
        revenue |-> ed.revenue,
        items_count |-> ItemsCount(ed)]

\* build_stg_events raises: a required column is missing, or json.loads returned a
\* value without .get (AttributeError)
EnrichRaises(raw, cols) ==
    \/ ~(RequiredColumns \subseteq cols)
    \/ \E i \in 1..Len(raw) :
         /\ NotNa(raw[i].event_data)
         /\ Val(raw[i].event_data).json = "nonobject"

\* df.get("clientId") is None on a frame without that column; Series.fillna(None) raises
\* ValueError in the pandas releases that demand a fill value and fills nothing in the
\* others, and the repository pins no release
EnrichMayRaise(cols) == "clientId" \notin cols

\* event ids drawn from a counter that outlives the call: a frame that was enriched
\* before gets the ids that follow its own
build_stg_events_running(raw) ==
    LET offset == IF raw # <<>> /\ "event_id" \in DOMAIN raw[1] THEN Len(raw) ELSE 0
    IN [i \in 1..Len(raw) |-> EnrichRow(raw[i], offset + i - 1)]

build_stg_events(raw) == [i \in 1..Len(raw) |-> EnrichRow(raw[i], i - 1)]

----------------------------------------------------------------------------
(* Sorting: DataFrame.sort_values on several columns is a stable sort that *)
(* places missing values last.                                             *)

\* a < b with na_position="first": NaT before every instant
TsLessNaTFirst(a, b) == NotNa(b) /\ (IsNone(a) \/ Val(a) < Val(b))

\* a < b on a nullable instant column, NaT last
TsLess(a, b) == NotNa(a) /\ (IsNone(b) \/ Val(a) < Val(b))

\* stable sort: a row goes after the rows that are less than it and after the
\* earlier rows that compare equal to it; less holds the pairs <<i, j>> of positions
\* with rows[i] less than rows[j]
SortBy(rows, less) ==
    LET n == Len(rows)
        Before(j, i) == <<j, i>> \in less \/ (<<i, j>> \notin less /\ j < i)
        Rank(i) == 1 + Cardinality({j \in 1..n : j # i /\ Before(j, i)})
    IN [k \in 1..n |-> rows[CHOOSE i \in 1..n : Rank(i) = k]]

\* the pairs of positions of rows
Pairs(rows) == (1..Len(rows)) \X (1..Len(rows))

\* the sort without its ts key: rows of a client in input order
ClientIdLess(a, b) ==
    \/ StrLess(Val(a.client_id), Val(b.client_id))
    \/ a.client_id = b.client_id /\ a.event_id < b.event_id

\* sort_values(["client_id", "ts", "event_id"])
ClientTsIdLess(a, b) ==
    \/ StrLess(Val(a.client_id), Val(b.client_id))
    \/ /\ a.client_id = b.client_id
       /\ \/ TsLess(a.ts, b.ts)
          \/ a.ts = b.ts /\ a.event_id < b.event_id

----------------------------------------------------------------------------
(* build_sessions *)

\* the frame without the notna() filter, a missing client_id cast to the string "nan"
SessionFrameUnfiltered(stgIn) ==
    LET rows == [i \in 1..Len(stgIn) |->
                    IF NotNa(stgIn[i].client_id) THEN stgIn[i]
                    ELSE [stgIn[i] EXCEPT !.client_id = Some(<<110, 97, 110>>)]]
    IN SortBy(rows, {p \in Pairs(rows) : ClientTsIdLess(rows[p[1]], rows[p[2]])})

\* stg[stg["client_id"].notna()] sorted by client_id, ts, event_id
SessionFrame(stgIn) ==
    LET rows == SelectSeq(stgIn, LAMBDA e : NotNa(e.client_id))
    IN SortBy(rows, {p \in Pairs(rows) : ClientTsIdLess(rows[p[1]], rows[p[2]])})

\* groupby("client_id")["ts"].shift(1): NaT on the first row of a client
\* shift(1) over the whole sorted frame, without the groupby
PrevTsUngrouped(df, i) == IF i = 1 THEN NaT ELSE df[i - 1].ts

PrevTs(df, i) ==
    IF i = 1 \/ df[i - 1].client_id # df[i].client_id THEN NaT ELSE df[i - 1].ts

\* (ts - prev_ts) in seconds, missing when either side is NaT
GapSec(df, i) ==
    IF IsNone(df[i].ts) \/ IsNone(PrevTs(df, i)) THEN None
    ELSE Some(Val(df[i].ts) - Val(PrevTs(df, i)))

\* the split test with >= in place of >
GapExceedsInclusive(gap, timeout) == NotNa(gap) /\ Val(gap) >= timeout * SecondsPerMinute

\* gap_min > timeout_min, False on a missing gap
GapExceeds(gap, timeout) == NotNa(gap) /\ Val(gap) > timeout * SecondsPerMinute

\* prev_ts.isna() | (gap_min > timeout_min)
\* a session started by the first row of a client and by a gap only
NewSessionFirstOrGap(df, i, timeout) ==
    \/ i = 1
    \/ df[i - 1].client_id # df[i].client_id
    \/ GapExceeds(GapSec(df, i), timeout)

NewSession(df, i, timeout) == IsNone(PrevTs(df, i)) \/ GapExceeds(GapSec(df, i), timeout)

\* groupby("client_id")["new_session"].cumsum()
\* the cumsum taken over the whole sorted frame, without the groupby
SessionIndexUngrouped(df, i, timeout) ==
    Cardinality({j \in 1..i : NewSession(df, j, timeout)})

SessionIndex(df, i, timeout) ==
    Cardinality({j \in 1..i : df[j].client_id = df[i].client_id /\ NewSession(df, j, timeout)})

\* client_id.astype(str) + "-" + session_index.astype(str)
MakeSessionId(client, index) == Val(client) \o StrDash \o IntToStr(index)

\* the sorted frame with its session_id column
SessionizedFrame(stgIn, timeout) ==
    LET df == SessionFrame(stgIn) IN
    [i \in 1..Len(df) |->
        [event_id |-> df[i].event_id,
         row |-> df[i],
         session_id |-> Some(MakeSessionId(df[i].client_id, SessionIndex(df, i, timeout)))]]

\* stg.merge(df[["event_id", "session_id"]], on="event_id", how="left")
\* the merge taken from the side of the sorted frame: its rows, in its order
AttachSessionIdInner(stgIn, sdf) ==
    [j \in 1..Len(sdf) |-> [session_id |-> sdf[j].session_id] @@ sdf[j].row]

AttachSessionId(stgIn, sdf) ==
    [i \in 1..Len(stgIn) |->
        LET hits == {j \in 1..Len(sdf) : sdf[j].event_id = stgIn[i].event_id} IN
        [session_id |-> IF hits = {} THEN None ELSE sdf[CHOOSE j \in hits : TRUE].session_id]
            @@ stgIn[i]]

\* the keys of groupby("session_id"), in sorted order
RECURSIVE SortedStrings(_)
SortedStrings(S) ==
    IF S = {} THEN <<>>
    ELSE LET m == CHOOSE x \in S : \A y \in S \ {x} : StrLess(x, y)
         IN <<m>> \o SortedStrings(S \ {m})

\* min/max of a ts column, skipping NaT; NaT when every value is NaT
TsMin(S) ==
    IF \A x \in S : IsNone(x) THEN NaT
    ELSE CHOOSE x \in S : NotNa(x) /\ \A y \in S : NotNa(y) => Val(x) <= Val(y)

\* session_end aggregated with "min" like session_start
TsMaxAsMin(S) ==
    IF \A x \in S : IsNone(x) THEN NaT
    ELSE CHOOSE x \in S : NotNa(x) /\ \A y \in S : NotNa(y) => Val(x) <= Val(y)

TsMax(S) ==
    IF \A x \in S : IsNone(x) THEN NaT
    ELSE CHOOSE x \in S : NotNa(x) /\ \A y \in S : NotNa(y) => Val(x) >= Val(y)

\* the rows of a session in input order
IdLess(a, b) == a.event_id < b.event_id

\* sort_values(["session_id", "ts", "event_id"]) within one session
TsIdLess(a, b) == TsLess(a.ts, b.ts) \/ (a.ts = b.ts /\ a.event_id < b.event_id)

\* one row of fct_sessions: aggregates of the group and the first row's acquisition columns
SessionRow(sdf, sid) ==
    LET idx == {j \in 1..Len(sdf) : sdf[j].session_id = Some(sid)}
        first == sdf[CHOOSE j \in idx : \A k \in idx \ {j} : TsIdLess(sdf[j].row, sdf[k].row)].row
        start == TsMin({sdf[j].row.ts : j \in idx})
        end == TsMax({sdf[j].row.ts : j \in idx})
        Count(name) == Cardinality({j \in idx : sdf[j].row.event_name = name})
    IN [session_id |-> Some(sid),
        client_id |-> sdf[CHOOSE j \in idx : \A k \in idx : j <= k].row.client_id,
        session_start |-> start,
        session_end |-> end,
        events |-> Cardinality(idx),
        pageviews |-> Count("page_viewed"),
        add_to_cart |-> Count("product_added_to_cart"),
        checkout_started |-> Count("checkout_started"),
        purchases |-> Count("checkout_completed"),
        duration_sec |-> IF IsNone(start) THEN None ELSE Some(Val(end) - Val(start)),
        page_url |-> first.page_url,
        ref_domain |-> first.ref_domain,
        marketing_source |-> first.marketing_source,
        utm_source |-> first.utm_source,
        utm_medium |-> first.utm_medium,
        utm_campaign |-> first.utm_campaign,
        user_agent |-> first.user_agent,
        device_type |-> _device_type(first.user_agent)]

\* the two frames build_sessions returns
build_sessions_stg(stgIn, timeout) == AttachSessionId(stgIn, SessionizedFrame(stgIn, timeout))

build_sessions_sess(stgIn, timeout) ==
    LET sdf == SessionizedFrame(stgIn, timeout)
        keys == SortedStrings({Val(sdf[j].session_id) : j \in 1..Len(sdf)})
    IN [k \in 1..Len(keys) |-> SessionRow(sdf, keys[k])]

----------------------------------------------------------------------------
(* build_orders *)

\* stg[stg["event_name"] == "checkout_completed"] with a non-null transaction_id
IsOrderEvent(e) == e.event_name = "checkout_completed" /\ NotNa(e.transaction_id)

\* sort_values(["transaction_id", "ts", "event_id"])
TxTsIdLess(a, b) ==
    \/ StrLess(Val(a.transaction_id), Val(b.transaction_id))
    \/ /\ a.transaction_id = b.transaction_id
       /\ \/ TsLess(a.ts, b.ts)
          \/ a.ts = b.ts /\ a.event_id < b.event_id

\* head(1) in place of tail(1): the first row of every group
IsGroupHead(o, i) == i = 1 \/ o[i - 1].transaction_id # o[i].transaction_id

\* groupby("transaction_id").tail(1): the last row of every group of the sorted frame
IsGroupTail(o, i) == i = Len(o) \/ o[i + 1].transaction_id # o[i].transaction_id

\* the columns of fct_orders, ts renamed to order_ts
OrderRow(e) ==
    [transaction_id |-> e.transaction_id,
     client_id |-> e.client_id,
     order_ts |-> e.ts,
     revenue |-> e.revenue,
     items_count |-> e.items_count,
     session_id |-> e.session_id,
     marketing_source |-> e.marketing_source,
     utm_source |-> e.utm_source,
     utm_medium |-> e.utm_medium,
     utm_campaign |-> e.utm_campaign,
     ref_domain |-> e.ref_domain,
     device_type |-> e.device_type]

\* the frame without the deduplication: every purchase event is kept
OrderWinnersAll(stgIn) ==
    LET rows == SelectSeq(stgIn, IsOrderEvent)
    IN SortBy(rows, {p \in Pairs(rows) : TxTsIdLess(rows[p[1]], rows[p[2]])})

\* the events build_orders keeps, in the order of the sorted frame
OrderWinners(stgIn) ==
    LET rows == SelectSeq(stgIn, IsOrderEvent)
        o == SortBy(rows, {p \in Pairs(rows) : TxTsIdLess(rows[p[1]], rows[p[2]])})
        tails == {i \in 1..Len(o) : IsGroupTail(o, i)}
        Nth(k) == CHOOSE i \in tails : Cardinality({j \in tails : j < i}) = k - 1
    IN [k \in 1..Cardinality(tails) |-> o[Nth(k)]]

build_orders(stgIn) ==
    LET w == OrderWinners(stgIn) IN [k \in 1..Len(w) |-> OrderRow(w[k])]

----------------------------------------------------------------------------
(* build_attribution *)

\* the touchpoint test that forgets "internal"
IsMarketingTouchNotDirect(s) == s.marketing_source # "direct"

\* ~marketing_source.isin(["direct", "internal"])
IsMarketingTouch(s) == s.marketing_source \notin {"direct", "internal"}

\* sort_values(["client_id", "session_start"])
ClientStartLess(a, b) ==
    \/ StrLess(Val(a.client_id), Val(b.client_id))
    \/ a.client_id = b.client_id /\ TsLess(a.session_start, b.session_start)

\* the touchpoint frame, sorted
TouchFrame(sess) ==
    LET rows == SelectSeq(sess, IsMarketingTouch)
    IN SortBy(rows, {p \in Pairs(rows) : ClientStartLess(rows[p[1]], rows[p[2]])})

\* touch_by_client.get(client_id): the client's rows of the sorted frame (empty: no group)
TouchOfClient(touch, client) == SelectSeq(touch, LAMBDA s : s.client_id = client)

\* order_ts - pd.Timedelta(days=lookback_days), NaT for a NaT order_ts
WindowStart(order_ts, lookback) ==
    IF IsNone(order_ts) THEN NaT ELSE Some(Val(order_ts) - lookback * SecondsPerDay)

\* the window with its lower end excluded
InWindowOpen(session_start, start, order_ts) ==
    /\ NotNa(session_start) /\ NotNa(start) /\ NotNa(order_ts)
    /\ Val(session_start) > Val(start)
    /\ Val(session_start) <= Val(order_ts)

\* (session_start >= start) & (session_start <= order_ts); a comparison with NaT is False
InWindow(session_start, start, order_ts) ==
    /\ NotNa(session_start) /\ NotNa(start) /\ NotNa(order_ts)
    /\ Val(session_start) >= Val(start)
    /\ Val(session_start) <= Val(order_ts)

\* g[...]: the client's touchpoints inside the window of order r, in sorted order
Candidates(touch, r, lookback) ==
    SelectSeq(TouchOfClient(touch, r.client_id),
              LAMBDA s : InWindow(s.session_start, WindowStart(r.order_ts, lookback), r.order_ts))

FallbackRecord(r, model) ==
    [transaction_id |-> r.transaction_id,
     model |-> model,
     attributed_session_id |-> None,
     attributed_source |-> "direct",
     utm_source |-> None,
     utm_medium |-> None,
     utm_campaign |-> None,
     ref_domain |-> None]

TouchRecord(r, model, s) ==
    [transaction_id |-> r.transaction_id,
     model |-> model,
     attributed_session_id |-> s.session_id,
     attributed_source |-> s.marketing_source,
     utm_source |-> s.utm_source,
     utm_medium |-> s.utm_medium,
     utm_campaign |-> s.utm_campaign,
     ref_domain |-> s.ref_domain]

\* last click taken from inwin.iloc[0] as well
AttributeOrderFirstOnly(touch, r, lookback) ==
    LET inwin == Candidates(touch, r, lookback) IN
    IF inwin = <<>>
    THEN <<FallbackRecord(r, "first_click"), FallbackRecord(r, "last_click")>>
    ELSE <<TouchRecord(r, "first_click", inwin[1]), TouchRecord(r, "last_click", inwin[1])>>

\* a single record when first and last click are the same session
AttributeOrderMerged(touch, r, lookback) ==
    LET inwin == Candidates(touch, r, lookback) IN
    IF inwin = <<>>
    THEN <<FallbackRecord(r, "first_click"), FallbackRecord(r, "last_click")>>
    ELSE IF Len(inwin) = 1
    THEN <<TouchRecord(r, "first_click", inwin[1])>>
    ELSE <<TouchRecord(r, "first_click", inwin[1]),
           TouchRecord(r, "last_click", inwin[Len(inwin)])>>

\* the two records appended for order r
AttributeOrder(touch, r, lookback) ==
    LET inwin == Candidates(touch, r, lookback) IN
    IF inwin = <<>>
    THEN <<FallbackRecord(r, "first_click"), FallbackRecord(r, "last_click")>>
    ELSE <<TouchRecord(r, "first_click", inwin[1]),
           TouchRecord(r, "last_click", inwin[Len(inwin)])>>

\* touchpoints shared between the orders: a session attributed to one order is no
\* candidate of the orders after it
RECURSIVE AttributeAllConsuming(_, _, _)
AttributeAllConsuming(touch, ordersIn, lookback) ==
    IF ordersIn = <<>> THEN <<>>
    ELSE LET recs == AttributeOrder(touch, Head(ordersIn), lookback)
             used == {recs[k].attributed_session_id : k \in 1..Len(recs)}
         IN recs \o AttributeAllConsuming(SelectSeq(touch, LAMBDA s : s.session_id \notin used),
                                           Tail(ordersIn), lookback)

RECURSIVE AttributeAll(_, _, _)
AttributeAll(touch, ordersIn, lookback) ==
    IF ordersIn = <<>> THEN <<>>
    ELSE AttributeAll(touch, SubSeq(ordersIn, 1, Len(ordersIn) - 1), lookback)
         \o AttributeOrder(touch, ordersIn[Len(ordersIn)], lookback)

build_attribution(ordersIn, sess, lookback) == AttributeAll(TouchFrame(sess), ordersIn, lookback)

----------------------------------------------------------------------------
(* Inputs of the model *)

Ts(n) == Some([ok |-> TRUE, sec |-> n])
BadTs == Some([ok |-> FALSE, sec |-> 0])

PlainUrl == Some([query |-> <<>>])
GoogleUrl == Some([query |-> << <<"gclid", "1">> >>])
MetaUrl == Some([query |-> << <<"fbclid", "2">>, <<"utm_source", "fb">>, <<"utm_medium", "">> >>])
GoogleRef == Some([host |-> "WWW.Google.com"])
PuffyRef == Some([host |-> "Puffy.com"])
PlainAgent == Some({"x"})

Payload(tid, rev) ==
    Some([json |-> "object", transaction_id |-> Some(tid), revenue |-> Some(rev),
          items |-> <<"list", 1>>])
ListPayload ==
    Some([json |-> "nonobject", transaction_id |-> None, revenue |-> None,
          items |-> <<"absent", 0>>])

Row(c, alias, t, name, data, url, ref) ==
    [client_id |-> c, clientId |-> alias, timestamp |-> t, event_name |-> name,
     event_data |-> data, page_url |-> url, referrer |-> ref, user_agent |-> PlainAgent]

View(c, t, url, ref) == Row(c, None, t, "page_viewed", None, url, ref)
Buy(c, t, tid, rev, url) == Row(c, None, t, "checkout_completed", Payload(tid, rev), url, None)

\* events of clients A, B and of no client around the 30 minute gap
SessionRows ==
    {View(Some(StrA), t, PlainUrl, None) : t \in {Ts(0), Ts(600), Ts(2400), Ts(4201), BadTs}}
    \cup {View(Some(StrB), t, PlainUrl, None) : t \in {Ts(0), Ts(4201)}}
    \cup {View(None, Ts(600), PlainUrl, None),
          Row(None, Some(StrA), Ts(600), "page_viewed", None, PlainUrl, None),
          Buy(None, Ts(600), StrT1, 100, PlainUrl)}

\* purchases of transactions T1 and T2, duplicated with another revenue, timestamp or
\* client, next to events that are no purchase
OrderRows ==
    {Buy(Some(StrA), t, StrT1, rev, PlainUrl) : t \in {Ts(0), Ts(600), BadTs}, rev \in {100, 250}}
    \cup {Buy(Some(StrA), Ts(0), StrT2, 100, GoogleUrl),
          Buy(Some(StrB), Ts(600), StrT1, 70, MetaUrl),
          Buy(None, Ts(600), StrT1, 100, PlainUrl),
          View(Some(StrA), Ts(4201), PlainUrl, None),
          Row(Some(StrA), None, Ts(4201), "page_viewed", Payload(StrT1, 999), PlainUrl, None),
          Row(Some(StrA), None, Ts(4201), "checkout_completed", None, PlainUrl, None)}

\* touchpoints and other sessions around the 7 day window of orders at day 7
AttributionRows ==
    {View(Some(StrA), Ts(0), PlainUrl, GoogleRef),
     View(Some(StrA), Ts(0), PlainUrl, None),
     View(Some(StrA), Ts(4201), MetaUrl, None),
     View(Some(StrA), Ts(4201), PlainUrl, PuffyRef),
     View(Some(StrA), Ts(700000), GoogleUrl, None),
     View(Some(StrB), Ts(4201), GoogleUrl, None),
     Buy(Some(StrA), Ts(604800), StrT1, 100, PlainUrl),
     Buy(Some(StrA), Ts(604801), StrT2, 100, PlainUrl),
     Buy(Some(StrA), Ts(604800), StrT2, 100, GoogleUrl),
     Buy(Some(StrA), BadTs, StrT1, 100, PlainUrl),
     Buy(None, Ts(604800), StrT1, 100, PlainUrl)}

\* events that tie on event_time within a client or a transaction, next to events that
\* do not, and a payload that is no JSON object
MixedRows ==
    {View(Some(StrA), Ts(0), PlainUrl, GoogleRef),
     View(Some(StrA), Ts(0), PlainUrl, None),
     View(Some(StrA), BadTs, PlainUrl, None),
     View(Some(StrA), BadTs, MetaUrl, None),
     View(Some(StrB), Ts(0), GoogleUrl, None),
     Buy(Some(StrA), Ts(600), StrT1, 100, PlainUrl),
     Buy(Some(StrA), Ts(600), StrT1, 250, PlainUrl),
     Buy(Some(StrA), Ts(4201), StrT1, 100, PlainUrl),
     Row(Some(StrA), None, Ts(0), "page_viewed", ListPayload, PlainUrl, None)}

Range(f) == {f[i] : i \in DOMAIN f}

\* sequences over S of length 0..n
SeqsUpTo(S, n) == UNION {[1..k -> S] : k \in 0..n}

Tables == <<"stg_events", "fct_sessions", "fct_orders", "fct_attribution">>

\* the frames that lack a column are paired with the shortest inputs only
ColumnSets == {AllColumns, AllColumns \ {"client_id"}, AllColumns \ {"clientId"}}

\* a frame carries no value in a column it lacks
ColumnsCarry(raw, cols) ==
    \A i \in 1..Len(raw) :
        /\ "client_id" \notin cols => IsNone(raw[i].client_id)
        /\ "clientId" \notin cols => IsNone(raw[i].clientId)

\* the state in which main() starts: inputs drawn from Inputs, output_dir holding the
\* tables of generation previous ("none": an empty output_dir)
InitOver(Inputs, Timeouts, Lookbacks, previous) ==
    /\ csvs \in Inputs
    /\ columns \in ColumnSets
    /\ columns # AllColumns => Len(csvs) = 1
    /\ ColumnsCarry(csvs, columns)
    /\ timeout_min \in Timeouts
    /\ lookback_days \in Lookbacks
    /\ pc = "glob"
    /\ status = "running"
    /\ stg = <<>>
    /\ sessions = <<>>
    /\ orders = <<>>
    /\ attrib = <<>>
    /\ written = {}
    /\ warehouse = [t \in Range(Tables) |-> previous]
    /\ loaded = <<>>

InitWith(Rows, Timeouts, Lookbacks) ==
    InitOver(SeqsUpTo(Rows, MaxEvents), Timeouts, Lookbacks, "none")

----------------------------------------------------------------------------
(* main() *)

\* the frames main computes from the concatenated raw frame
PipelineStg(raw, timeout) == build_sessions_stg(build_stg_events(raw), timeout)
PipelineSessions(raw, timeout) == build_sessions_sess(build_stg_events(raw), timeout)
PipelineOrders(raw, timeout) == build_orders(PipelineStg(raw, timeout))
PipelineAttribution(raw, timeout, lookback) ==
    build_attribution(PipelineOrders(raw, timeout), PipelineSessions(raw, timeout), lookback)

\* glob finds no CSV file: SystemExit
NoCsvFound ==
    /\ pc = "glob" /\ status = "running"
    /\ csvs = <<>>
    /\ status' = "failed"
    /\ UNCHANGED <<csvs, columns, timeout_min, lookback_days, pc, stg, sessions, orders, attrib,
                   written, warehouse, loaded>>

\* read_csv of every partition, concat, build_stg_events
Enrich ==
    /\ pc = "glob" /\ status = "running"
    /\ csvs # <<>>
    /\ ~EnrichRaises(csvs, columns)
    /\ stg' = build_stg_events(csvs)
    /\ pc' = "sessions"
    /\ UNCHANGED <<csvs, columns, timeout_min, lookback_days, status, sessions, orders, attrib,
                   written, warehouse, loaded>>

EnrichFails ==
    /\ pc = "glob" /\ status = "running"
    /\ csvs # <<>>
    /\ EnrichRaises(csvs, columns) \/ EnrichMayRaise(columns)
    /\ pc' = "enrich"
    /\ status' = "failed"
    /\ UNCHANGED <<csvs, columns, timeout_min, lookback_days, stg, sessions, orders, attrib,
                   written, warehouse, loaded>>

BuildSessions ==
    /\ pc = "sessions" /\ status = "running"
    /\ stg' = build_sessions_stg(stg, timeout_min)
    /\ sessions' = build_sessions_sess(stg, timeout_min)
    /\ pc' = "orders"
    /\ UNCHANGED <<csvs, columns, timeout_min, lookback_days, status, orders, attrib, written, warehouse, loaded>>

BuildOrders ==
    /\ pc = "orders" /\ status = "running"
    /\ orders' = build_orders(stg)
    /\ pc' = "attribution"
    /\ UNCHANGED <<csvs, columns, timeout_min, lookback_days, status, stg, sessions, attrib,
                   written, warehouse, loaded>>

BuildAttribution ==
    /\ pc = "attribution" /\ status = "running"
    /\ attrib' = build_attribution(orders, sessions, lookback_days)
    /\ pc' = "write"
    /\ UNCHANGED <<csvs, columns, timeout_min, lookback_days, status, stg, sessions, orders,
                   written, warehouse, loaded>>

\* the next table main writes: the tables are written one after the other
NextTable == Tables[Cardinality(written) + 1]

\* one to_csv call returns
WriteTable ==
    /\ pc = "write" /\ status = "running"
    /\ written' = written \cup {NextTable}
    /\ warehouse' = [warehouse EXCEPT ![NextTable] = "new"]
    /\ pc' = IF Cardinality(written) + 1 = Len(Tables) THEN "report" ELSE "write"
    /\ UNCHANGED <<csvs, columns, timeout_min, lookback_days, status, stg, sessions, orders,
                   attrib, loaded>>

\* os.makedirs or one to_csv call raises OSError (disk full, permission denied)
WriteFails ==
    /\ pc = "write" /\ status = "running"
    /\ status' = "failed"
    /\ UNCHANGED <<csvs, columns, timeout_min, lookback_days, pc, stg, sessions, orders, attrib,
                   written, warehouse, loaded>>

\* reconciliation_report and the two report files; pivot_table on the frame of no
\* attribution row (a frame without columns) raises KeyError
Report ==
    /\ pc = "report" /\ status = "running"
    /\ status' = IF attrib = <<>> THEN "failed" ELSE "done"
    /\ UNCHANGED <<csvs, columns, timeout_min, lookback_days, pc, stg, sessions, orders, attrib,
                   written, warehouse, loaded>>

Next ==
    \/ NoCsvFound
    \/ Enrich
    \/ EnrichFails
    \/ BuildSessions
    \/ BuildOrders
    \/ BuildAttribution
    \/ WriteTable
    \/ WriteFails
    \/ Report

Init == InitWith(MixedRows, {DEFAULT_SESSION_TIMEOUT_MIN}, {DEFAULT_LOOKBACK_DAYS})
Spec == Init /\ [][Next]_vars

InitSessions == InitWith(SessionRows, {10, DEFAULT_SESSION_TIMEOUT_MIN}, {DEFAULT_LOOKBACK_DAYS})
SpecSessions == InitSessions /\ [][Next]_vars

----------------------------------------------------------------------------
(* Stages of main() whose results are in the state *)

Sessionized == pc \in {"orders", "attribution", "write", "report"}
OrdersBuilt == pc \in {"attribution", "write", "report"}
Attributed == pc \in {"write", "report"}

\* the positions of stg (= event_id + 1) of the events of client c
EventsOf(c) == {i \in 1..Len(stg) : stg[i].client_id = Some(c)}
ClientsSeen == {Val(stg[i].client_id) : i \in {j \in 1..Len(stg) : NotNa(stg[j].client_id)}}
AllParsable(c) == \A i \in EventsOf(c) : NotNa(stg[i].ts)

\* (event_time, event_id) order on events with parsable timestamps
Earlier(i, j) ==
    \/ Val(stg[i].ts) < Val(stg[j].ts)
    \/ Val(stg[i].ts) = Val(stg[j].ts) /\ stg[i].event_id < stg[j].event_id

\* i and j are events of c that are adjacent in that order
AdjacentPairs(c) ==
    {p \in EventsOf(c) \X EventsOf(c) :
        /\ Earlier(p[1], p[2])
        /\ ~\E k \in EventsOf(c) : Earlier(p[1], k) /\ Earlier(k, p[2])}

PairGap(p) == Val(stg[p[2]].ts) - Val(stg[p[1]].ts)
TimeoutSec == timeout_min * SecondsPerMinute
SessionsOfClient(c) == {k \in 1..Len(sessions) : sessions[k].client_id = Some(c)}

\* C1. Session split law: for a client whose events all have parsable timestamps, two
\* events adjacent in (event_time, event_id) order share a session_id exactly when their
\* gap is at most the timeout, and the client has 1 + (number of adjacent gaps greater
\* than the timeout) sessions.
SessionSplitLaw ==
    Sessionized =>
        \A c \in ClientsSeen :
            AllParsable(c) =>
                /\ \A p \in AdjacentPairs(c) :
                       (stg[p[1]].session_id = stg[p[2]].session_id) <=> (PairGap(p) <= TimeoutSec)
                /\ Cardinality(SessionsOfClient(c))
                       = 1 + Cardinality({p \in AdjacentPairs(c) : PairGap(p) > TimeoutSec})

\* a client with an adjacent gap equal to the timeout and one just above it: 2 sessions
SessionSplitWitness ==
    /\ Sessionized
    /\ \E c \in ClientsSeen :
          /\ AllParsable(c)
          /\ \E p \in AdjacentPairs(c) : PairGap(p) = TimeoutSec
          /\ \E p \in AdjacentPairs(c) : PairGap(p) = TimeoutSec + 1
          /\ Cardinality(SessionsOfClient(c)) = 2

\* raw row i has no client identifier in either accepted column
NoClient(i) == IsNone(csvs[i].client_id) /\ IsNone(csvs[i].clientId)

\* the events counted by the first k Session rows
RECURSIVE SumEvents(_)
SumEvents(k) == IF k = 0 THEN 0 ELSE sessions[k].events + SumEvents(k - 1)

\* C8. An event whose client_id is absent in both accepted columns keeps an absent
\* session_id, is still a row of the enriched output, is counted in no Session row, and
\* an Order won by such an event has an absent session_id.
AbsentClientLaw ==
    /\ Sessionized =>
          /\ Len(stg) = Len(csvs)
          /\ \A i \in 1..Len(csvs) :
                NoClient(i) => stg[i].event_id = i - 1 /\ IsNone(stg[i].session_id)
          /\ \A k \in 1..Len(sessions) : NotNa(sessions[k].client_id)
          /\ SumEvents(Len(sessions)) = Cardinality({i \in 1..Len(csvs) : ~NoClient(i)})
    /\ OrdersBuilt =>
          \A k \in 1..Len(orders) : IsNone(orders[k].client_id) => IsNone(orders[k].session_id)

\* an order won by an event without client, next to a sessionized event
AbsentClientWitness ==
    /\ OrdersBuilt
    /\ \E k \in 1..Len(orders) : IsNone(orders[k].client_id) /\ IsNone(orders[k].session_id)
    /\ \E i \in 1..Len(csvs) : NoClient(i) /\ csvs[i].event_name = "page_viewed"
    /\ Len(sessions) > 0

InitOrders == InitWith(OrderRows, {DEFAULT_SESSION_TIMEOUT_MIN}, {DEFAULT_LOOKBACK_DAYS})
SpecOrders == InitOrders /\ [][Next]_vars

InitAttribution == InitWith(AttributionRows, {DEFAULT_SESSION_TIMEOUT_MIN}, {0, DEFAULT_LOOKBACK_DAYS})
SpecAttribution == InitAttribution /\ [][Next]_vars

----------------------------------------------------------------------------
(* Orders *)

\* the purchase events of stg that carry transaction id t
PurchasesOf(t) ==
    {i \in 1..Len(stg) : stg[i].event_name = "checkout_completed" /\ stg[i].transaction_id = Some(t)}
TransactionsSeen ==
    {Val(stg[i].transaction_id) :
        i \in {j \in 1..Len(stg) :
                 stg[j].event_name = "checkout_completed" /\ NotNa(stg[j].transaction_id)}}

\* (event_time, event_id) order with an unparsable event_time later than every instant
Later(i, j) ==
    \/ IsNone(stg[i].ts) /\ NotNa(stg[j].ts)
    \/ NotNa(stg[i].ts) /\ NotNa(stg[j].ts) /\ Val(stg[i].ts) > Val(stg[j].ts)
    \/ stg[i].ts = stg[j].ts /\ stg[i].event_id > stg[j].event_id

LatestPurchase(t) == CHOOSE i \in PurchasesOf(t) : \A j \in PurchasesOf(t) \ {i} : Later(i, j)
OrdersOf(t) == {k \in 1..Len(orders) : orders[k].transaction_id = Some(t)}

\* C2. Latest wins: the Order row of a transaction_id is the projection of the purchase
\* event that is maximal under (event_time, event_id) among those carrying the id.
LatestWins ==
    OrdersBuilt =>
        \A t \in TransactionsSeen :
            /\ OrdersOf(t) # {}
            /\ \A k \in OrdersOf(t) :
                LET e == stg[LatestPurchase(t)] IN
                /\ orders[k].revenue = e.revenue
                /\ orders[k].order_ts = e.ts
                /\ orders[k].client_id = e.client_id
                /\ orders[k].session_id = e.session_id
                /\ orders[k].items_count = e.items_count
                /\ orders[k].marketing_source = e.marketing_source
                /\ orders[k].utm_source = e.utm_source
                /\ orders[k].utm_medium = e.utm_medium
                /\ orders[k].utm_campaign = e.utm_campaign
                /\ orders[k].ref_domain = e.ref_domain
                /\ orders[k].device_type = e.device_type

\* a later duplicate with another revenue replaced the earlier purchase
LatestWinsWitness ==
    /\ OrdersBuilt
    /\ \E t \in TransactionsSeen :
          \E i, j \in PurchasesOf(t) :
              /\ NotNa(stg[i].ts) /\ NotNa(stg[j].ts)
              /\ Val(stg[i].ts) < Val(stg[j].ts)
              /\ stg[i].event_id > stg[j].event_id
              /\ stg[i].revenue # stg[j].revenue
              /\ j = LatestPurchase(t)
              /\ \E k \in OrdersOf(t) : orders[k].revenue = stg[j].revenue

\* C3. Order uniqueness: the Order table has exactly one row for every distinct non-null
\* transaction_id carried by a purchase event, and no two rows share a transaction_id.
OrderUniqueness ==
    OrdersBuilt =>
        /\ \A t \in TransactionsSeen : Cardinality(OrdersOf(t)) = 1
        /\ \A k, l \in 1..Len(orders) :
               orders[k].transaction_id = orders[l].transaction_id => k = l
        /\ Len(orders) = Cardinality(TransactionsSeen)

\* two transactions, one of them carried by several purchase events
OrderUniquenessWitness ==
    /\ OrdersBuilt
    /\ Len(orders) = 2
    /\ \E t \in TransactionsSeen : Cardinality(PurchasesOf(t)) >= 2

----------------------------------------------------------------------------
(* Attribution *)

LookbackSec == lookback_days * SecondsPerDay

\* session s is eligible for order r: same client, a marketing source other than direct
\* and internal, and a start inside [order time - lookback, order time]
Eligible(s, r) ==
    /\ s.client_id = r.client_id
    /\ s.marketing_source # "direct" /\ s.marketing_source # "internal"
    /\ NotNa(s.session_start) /\ NotNa(r.order_ts)
    /\ Val(r.order_ts) - LookbackSec <= Val(s.session_start)
    /\ Val(s.session_start) <= Val(r.order_ts)

EligibleOf(r) == {k \in 1..Len(sessions) : Eligible(sessions[k], r)}
RecordsOf(r, model) ==
    {a \in 1..Len(attrib) :
        attrib[a].transaction_id = r.transaction_id /\ attrib[a].model = model}
SessionOfId(sid) == {k \in 1..Len(sessions) : sessions[k].session_id = sid}
Models == {"first_click", "last_click"}

\* C4. Attribution lookback boundary: a session is a candidate of an order exactly when it
\* is of the order's client, its source is neither direct nor internal and its start lies
\* in [t - lookback, t], both ends included; attributed sessions are candidates and every
\* candidate starts between the first-click and the last-click session.
LookbackBoundary ==
    Attributed =>
        \A o \in 1..Len(orders) :
            LET r == orders[o]
                cand == Candidates(TouchFrame(sessions), r, lookback_days)
            IN /\ \A k \in 1..Len(sessions) :
                      Eligible(sessions[k], r) <=> (\E c \in 1..Len(cand) : cand[c] = sessions[k])
               /\ \A m \in Models : \A a \in RecordsOf(r, m) :
                      NotNa(attrib[a].attributed_session_id) =>
                          \E k \in EligibleOf(r) :
                              sessions[k].session_id = attrib[a].attributed_session_id
               /\ \A k \in EligibleOf(r) :
                      /\ \E a \in RecordsOf(r, "first_click") :
                            \E f \in SessionOfId(attrib[a].attributed_session_id) :
                                Val(sessions[f].session_start) <= Val(sessions[k].session_start)
                      /\ \E a \in RecordsOf(r, "last_click") :
                            \E l \in SessionOfId(attrib[a].attributed_session_id) :
                                Val(sessions[l].session_start) >= Val(sessions[k].session_start)

\* one touchpoint starts exactly lookback before an order that is attributed to it and
\* one second too early for another order of the client; a third starts after an order
LookbackBoundaryWitness ==
    /\ Attributed
    /\ lookback_days > 0
    /\ \E k \in 1..Len(sessions) : \E o1, o2 \in 1..Len(orders) :
          /\ IsMarketingTouch(sessions[k])
          /\ sessions[k].client_id = orders[o1].client_id
          /\ sessions[k].client_id = orders[o2].client_id
          /\ NotNa(orders[o1].order_ts) /\ NotNa(orders[o2].order_ts)
          /\ Val(sessions[k].session_start) = Val(orders[o1].order_ts) - LookbackSec
          /\ Val(sessions[k].session_start) = Val(orders[o2].order_ts) - LookbackSec - 1
          /\ \E a \in RecordsOf(orders[o1], "first_click") :
                attrib[a].attributed_session_id = sessions[k].session_id
          /\ \E a \in RecordsOf(orders[o2], "first_click") :
                attrib[a].attributed_session_id # sessions[k].session_id

\* record a names session s and has its acquisition snapshot
Carries(a, s) ==
    /\ a.attributed_session_id = s.session_id
    /\ a.attributed_source = s.marketing_source
    /\ a.utm_source = s.utm_source
    /\ a.utm_medium = s.utm_medium
    /\ a.utm_campaign = s.utm_campaign
    /\ a.ref_domain = s.ref_domain

\* C5. First/last-click selection: with a non-empty candidate set the first_click record
\* names the candidate with the smallest session_start and the last_click record the one
\* with the largest, each with that session's marketing_source, utm_* and ref_domain.
FirstLastClick ==
    Attributed =>
        \A o \in 1..Len(orders) :
            LET r == orders[o]
                E == EligibleOf(r)
                StartOf(k) == Val(sessions[k].session_start)
            IN E # {} =>
                  /\ RecordsOf(r, "first_click") # {} /\ RecordsOf(r, "last_click") # {}
                  /\ \A a \in RecordsOf(r, "first_click") :
                        \E k \in E : /\ \A j \in E : StartOf(k) <= StartOf(j)
                                     /\ Carries(attrib[a], sessions[k])
                  /\ \A a \in RecordsOf(r, "last_click") :
                        \E k \in E : /\ \A j \in E : StartOf(k) >= StartOf(j)
                                     /\ Carries(attrib[a], sessions[k])

\* an order with two candidates of different sources: first and last click differ
FirstLastClickWitness ==
    /\ Attributed
    /\ \E o \in 1..Len(orders) :
          /\ Cardinality(EligibleOf(orders[o])) = 2
          /\ \E a \in RecordsOf(orders[o], "first_click") :
             \E b \in RecordsOf(orders[o], "last_click") :
                /\ attrib[a].attributed_source = "google_organic"
                /\ attrib[b].attributed_source = "meta_ads"
                /\ NotNa(attrib[a].ref_domain)
                /\ NotNa(attrib[b].utm_source)

\* the fallback (session_id = null, source = "direct")
IsFallback(a) == IsNone(a.attributed_session_id) /\ a.attributed_source = "direct"

\* C6. Fallback law: a record has a null session and source "direct" exactly when the
\* order's candidate set is empty, then both records of the order are the fallback; a
\* record with a session never has source direct or internal.
FallbackLaw ==
    Attributed =>
        /\ \A o \in 1..Len(orders) : \A m \in Models :
              /\ RecordsOf(orders[o], m) # {}
              /\ \A a \in RecordsOf(orders[o], m) :
                    IsFallback(attrib[a]) <=> EligibleOf(orders[o]) = {}
        /\ \A a \in 1..Len(attrib) :
              NotNa(attrib[a].attributed_session_id) =>
                  attrib[a].attributed_source \notin {"direct", "internal"}

\* a fallback order of a client whose sessions are all direct, internal or out of the
\* window, next to an order that is attributed
FallbackWitness ==
    /\ Attributed
    /\ \E o \in 1..Len(orders) :
          /\ EligibleOf(orders[o]) = {}
          /\ \E k \in 1..Len(sessions) :
                sessions[k].client_id = orders[o].client_id
                /\ sessions[k].marketing_source = "internal"
          /\ \A m \in Models : \E a \in RecordsOf(orders[o], m) : IsFallback(attrib[a])
    /\ \E a \in 1..Len(attrib) : ~IsFallback(attrib[a])

\* C7. build_attribution emits exactly two records per order, one first_click and one
\* last_click: (transaction_id, model) is unique, every order appears, and no record
\* names a transaction_id that is not an order.
TwoRecordsPerOrder ==
    Attributed =>
        /\ Len(attrib) = 2 * Len(orders)
        /\ \A o \in 1..Len(orders) : \A m \in Models :
              Cardinality(RecordsOf(orders[o], m)) = 1
        /\ \A a \in 1..Len(attrib) :
              /\ attrib[a].model \in Models
              /\ \E o \in 1..Len(orders) : orders[o].transaction_id = attrib[a].transaction_id

\* two orders, one attributed to a single touchpoint and one falling back
TwoRecordsWitness ==
    /\ Attributed
    /\ Len(orders) = 2
    /\ Len(attrib) = 4
    /\ \E o \in 1..Len(orders) : Cardinality(EligibleOf(orders[o])) = 1
    /\ \E o \in 1..Len(orders) : EligibleOf(orders[o]) = {}

----------------------------------------------------------------------------
(* Input order *)

RowOrders(n) == {p \in [1..n -> 1..n] : \A i, j \in 1..n : p[i] = p[j] => i = j}
Permuted(raw, p) == [i \in 1..Len(raw) |-> raw[p[i]]]

\* what a run assigns: the session_id of every raw event, the order rows, the records
SessionAssignment(raw, stgOut) == {<<raw[i], stgOut[i].session_id>> : i \in 1..Len(raw)}

\* the run over the rows of csvs in order p has the results of the run in the state
SameResults(p) ==
    LET raw2 == Permuted(csvs, p) IN
    /\ SessionAssignment(raw2, PipelineStg(raw2, timeout_min)) = SessionAssignment(csvs, stg)
    /\ Range(PipelineOrders(raw2, timeout_min)) = Range(orders)
    /\ Range(PipelineAttribution(raw2, timeout_min, lookback_days)) = Range(attrib)

RunComputed == pc = "report" /\ status = "running"

\* no two events of one client, and no two purchase events of one transaction_id, have
\* the same event_time; two unparsable timestamps count as the same
NoTies ==
    \A i, j \in 1..Len(stg) :
        i # j /\ stg[i].ts = stg[j].ts =>
            /\ ~(NotNa(stg[i].client_id) /\ stg[i].client_id = stg[j].client_id)
            /\ ~(IsOrderEvent(stg[i]) /\ IsOrderEvent(stg[j])
                 /\ stg[i].transaction_id = stg[j].transaction_id)

\* C9 as stated. Determinism independent of input order: a run over the same raw events
\* in any other row order assigns every event the same session_id, retains the same
\* event for every transaction_id and produces the same attribution records.
InputOrderIndependent ==
    RunComputed => \A p \in RowOrders(Len(csvs)) : SameResults(p)

\* C9 as amended. The same, for inputs in which no two events of one client and no two
\* purchase events of one transaction_id tie on event_time.
InputOrderIndependentWithoutTies ==
    (RunComputed /\ NoTies) => \A p \in RowOrders(Len(csvs)) : SameResults(p)

\* three events of one client given latest first, two of them purchases of one
\* transaction, the order attributed to a touchpoint
InputOrderWitness ==
    /\ RunComputed /\ NoTies
    /\ Len(csvs) = 3
    /\ \A i \in 1..3 : stg[i].client_id = Some(StrA) /\ NotNa(stg[i].ts)
    /\ Val(stg[1].ts) > Val(stg[2].ts) /\ Val(stg[2].ts) > Val(stg[3].ts)
    /\ \E t \in TransactionsSeen : Cardinality(PurchasesOf(t)) = 2
    /\ \E a \in 1..Len(attrib) : NotNa(attrib[a].attributed_session_id)

----------------------------------------------------------------------------
(* Output of a run *)

\* C10. All-or-nothing output: when a run fails at any step up to and including the
\* writing of the tables, none of the four tables has been written; once main has left,
\* the four tables are all written or none is.
AllOrNothing ==
    /\ (status = "failed" /\ pc # "report") => written = {}
    /\ status # "running" => written = {} \/ written = Range(Tables)

----------------------------------------------------------------------------
(* Enrichment of single rows *)

MaxFrame == 1

Url(pairs) == Some([query |-> pairs])
Ref(h) == Some([host |-> h])

\* one page view of client A that differs from View in one or two raw fields
Hit(url, ref, agent, data) ==
    [Row(Some(StrA), None, Ts(0), "page_viewed", data, url, ref) EXCEPT !.user_agent = agent]

\* query strings with click ids of one or two networks, utm parameters, other
\* parameters, parameters with a blank value, and no page_url
EnrichUrls ==
    {None, PlainUrl, GoogleUrl, MetaUrl,
     Url(<< <<"gad_source", "1">>, <<"fbclid", "2">> >>),
     Url(<< <<"wbraid", "1">> >>),
     Url(<< <<"gbraid", "1">>, <<"utm_source", "x">> >>),
     Url(<< <<"ttclid", "3">>, <<"fbclid", "2">> >>),
     Url(<< <<"msclkid", "4">>, <<"ttclid", "3">> >>),
     Url(<< <<"utm_source", "x">>, <<"msclkid", "4">> >>),
     Url(<< <<"utm_term", "x">> >>),
     Url(<< <<"utm_source", "x">>, <<"utm_source", "y">>, <<"utm_campaign", "z">> >>),
     Url(<< <<"page", "2">> >>),
     Url(<< <<"gclid", "">>, <<"utm_source", "x">> >>),
     Url(<< <<"utm_medium", "">> >>)}

\* referrers of search engines, of the site, of other sites, without a host, and none
EnrichRefs ==
    {None, GoogleRef, PuffyRef, Ref("google.com"), Ref("bing.com"), Ref("www.bing.com"),
     Ref("www.puffy.com"), Ref("notpuffy.com"), Ref("example.com"), Ref("")}

\* user agents with tablet and mobile markers in either case, with none, empty, null
EnrichAgents ==
    {None, Some({}), PlainAgent, Some({"iPad", "Mobile"}), Some({"iPhone", "Mobile"}),
     Some({"Android", "Mobile"}), Some({"Android", "Tablet"}), Some({"tablet"}),
     Some({"android"}), Some({"x", "mobile"})}

\* event_data: null, blank, no JSON, JSON that is no object, and objects with and
\* without transaction_id, revenue and items
EnrichPayloads ==
    {None, ListPayload, Payload(StrT1, 100),
     Some([json |-> "blank", transaction_id |-> None, revenue |-> None, items |-> <<"absent", 0>>]),
     Some([json |-> "invalid", transaction_id |-> None, revenue |-> None, items |-> <<"absent", 0>>]),
     Some([json |-> "object", transaction_id |-> None, revenue |-> None, items |-> <<"absent", 0>>]),
     Some([json |-> "object", transaction_id |-> Some(StrT2), revenue |-> None, items |-> <<"other", 0>>]),
     Some([json |-> "object", transaction_id |-> None, revenue |-> Some(70), items |-> <<"list", 0>>])}

\* the two raw client identifier columns: both, either, none
EnrichClients ==
    {<<c, a>> : c \in {None, Some(StrA)}, a \in {None, Some(StrA), Some(StrB)}}

EnrichRows ==
    {Hit(url, ref, PlainAgent, None) : url \in EnrichUrls, ref \in {None, GoogleRef}}
    \cup {Hit(url, ref, PlainAgent, None) :
             url \in {PlainUrl, Url(<< <<"utm_medium", "">> >>)}, ref \in EnrichRefs}
    \cup {Hit(PlainUrl, None, agent, None) : agent \in EnrichAgents}
    \cup {Hit(PlainUrl, None, PlainAgent, data) : data \in EnrichPayloads}
    \cup {[Hit(PlainUrl, None, PlainAgent, Payload(StrT1, 100))
             EXCEPT !.client_id = ca[1], !.clientId = ca[2], !.timestamp = t] :
          ca \in EnrichClients, t \in {Ts(600), BadTs, None}}

InitEnrich ==
    InitOver(SeqsUpTo(EnrichRows, MaxFrame), {DEFAULT_SESSION_TIMEOUT_MIN},
             {DEFAULT_LOOKBACK_DAYS}, "none")
SpecEnrich == InitEnrich /\ [][Next]_vars

\* build_stg_events has returned
Enriched == pc \notin {"glob", "enrich"}
EnrichRaised == pc = "enrich" /\ status = "failed"

\* C12. Enrichment is total: on a frame that carries every column, build_stg_events
\* returns one enriched row per raw row and does not raise, whatever the event_data
\* (null, empty, no JSON, JSON that is no object), timestamp, referrer and user_agent
\* of the rows are.
EnrichmentTotal ==
    (columns = AllColumns /\ csvs # <<>> /\ pc # "glob") =>
        /\ ~EnrichRaised
        /\ Len(stg) = Len(csvs)

\* event_data is null, empty, or fails to parse
PayloadUnusable(data) == IsNone(data) \/ Val(data).json \in {"blank", "invalid"}

\* C13. For every raw event whose event_data is null, empty or fails to parse, the
\* derived fields transaction_id, revenue and items_count are all absent.
TransactionFieldsAbsent ==
    Enriched =>
        \A i \in 1..Len(stg) :
            PayloadUnusable(stg[i].event_data) =>
                /\ IsNone(stg[i].transaction_id)
                /\ IsNone(stg[i].revenue)
                /\ IsNone(stg[i].items_count)

\* the keys of the query string of page_url as written, whatever their values
UrlKeys(url) == IF IsNone(url) THEN {} ELSE {Val(url).query[i][1] : i \in 1..Len(Val(url).query)}

MarketingLabels ==
    {"google_ads", "meta_ads", "tiktok_ads", "microsoft_ads", "utm_tagged", "google_organic",
     "bing_organic", "direct", "internal", "other_referrer"}

\* the priority chain of the claim over the query keys and the lower-cased referrer host
ChainLabel(keys, host) ==
    IF keys \cap {"gclid", "gbraid", "wbraid", "gad_source"} # {} THEN "google_ads"
    ELSE IF "fbclid" \in keys THEN "meta_ads"
    ELSE IF "ttclid" \in keys THEN "tiktok_ads"
    ELSE IF "msclkid" \in keys THEN "microsoft_ads"
    ELSE IF \E k \in keys : StartsWithUtm(k) THEN "utm_tagged"
    ELSE IF host \in {Some("google.com"), Some("www.google.com")} THEN "google_organic"
    ELSE IF host \in {Some("bing.com"), Some("www.bing.com")} THEN "bing_organic"
    ELSE IF IsNone(host) THEN "direct"
    ELSE IF EndsWithPuffy(Val(host)) THEN "internal"
    ELSE "other_referrer"

\* C14. marketing_source is the first match of the priority chain over the page_url
\* query keys and the referrer host: a paid click-id key (Google, then fbclid, ttclid,
\* msclkid) before any utm_ key, before a search-engine referrer, before an absent
\* referrer, before a referrer of the site, before any other referrer; the result is
\* always one of these labels.
MarketingSourceChain ==
    Enriched =>
        \A i \in 1..Len(stg) :
            /\ stg[i].marketing_source \in MarketingLabels
            /\ stg[i].marketing_source = ChainLabel(UrlKeys(stg[i].page_url), stg[i].ref_domain)

\* run_validation.load_partition: client_id_canonical starts as None and is filled from
\* each alias column the frame carries, client_id before clientId
CLIENT_ID_ALIASES == <<"client_id", "clientId">>

client_id_canonical(r, cols) ==
    LET present == SelectSeq(CLIENT_ID_ALIASES, LAMBDA c : c \in cols /\ NotNa(r[c]))
    IN IF present = <<>> THEN None ELSE r[Head(present)]

\* the first non-null value among the raw columns client_id, clientId
FirstNonNullId(r) == IF NotNa(r.client_id) THEN r.client_id ELSE r.clientId

NoNonObjectPayload ==
    \A i \in 1..Len(csvs) :
        IsNone(csvs[i].event_data) \/ Val(csvs[i].event_data).json # "nonobject"

\* C15. Client identifier aliasing: whether the input carries both of the columns
\* client_id, clientId or only one of them, the canonical client_id of every enriched
\* event is the first non-null value of the two, absent only when both are null, and
\* equal to the canonical id the validation derives from the same row.
ClientIdAliasing ==
    (/\ csvs # <<>> /\ pc # "glob"
     /\ columns \cap {"client_id", "clientId"} # {}
     /\ NoNonObjectPayload) =>
        /\ ~EnrichRaised
        /\ \A i \in 1..Len(stg) :
             /\ stg[i].client_id = FirstNonNullId(csvs[i])
             /\ stg[i].client_id = client_id_canonical(csvs[i], columns)

\* C16. Idempotence of enrichment: build_stg_events applied to its own output, in the
\* same row order, returns that output: no row is added or removed and event_id,
\* client_id, event time, ref_domain, utm_*, marketing_source, device_type,
\* transaction_id, revenue and items_count of every row are unchanged.
EnrichmentIdempotent ==
    (pc = "sessions" /\ status = "running") =>
        /\ ~EnrichRaises(stg, columns)
        /\ build_stg_events(stg) = stg

\* an enriched purchase whose client_id came from the alias column
EnrichmentIdempotentWitness ==
    /\ pc = "sessions" /\ status = "running"
    /\ Len(stg) = 1
    /\ IsNone(csvs[1].client_id) /\ stg[1].client_id = Some(StrB)
    /\ NotNa(stg[1].transaction_id) /\ NotNa(stg[1].ts)
    /\ build_stg_events(stg) = stg

TabletMarkers == {"ipad", "tablet"}
MobileMarkers == {"iphone", "android", "mobile"}

\* C19. device_type is the first match on the lower-cased user agent: a tablet marker
\* gives tablet even next to a mobile marker, otherwise a mobile marker gives mobile,
\* otherwise desktop; a null or empty user agent gives no device_type; no other value
\* is produced.
DeviceTypeChain ==
    Enriched =>
        \A i \in 1..Len(stg) :
            LET ua == stg[i].user_agent
                d == stg[i].device_type
            IN /\ d \in {None, Some("tablet"), Some("mobile"), Some("desktop")}
               /\ IsNone(d) <=> (IsNone(ua) \/ Val(ua) = {})
               /\ NotNa(d) =>
                    d = IF LowerWords(Val(ua)) \cap TabletMarkers # {} THEN Some("tablet")
                        ELSE IF LowerWords(Val(ua)) \cap MobileMarkers # {} THEN Some("mobile")
                        ELSE Some("desktop")

\* an iPad user agent, which also says Mobile, classified as tablet
DeviceTypeWitness ==
    /\ Enriched
    /\ \E i \in 1..Len(stg) :
         /\ stg[i].user_agent = Some({"iPad", "Mobile"})
         /\ stg[i].device_type = Some("tablet")

----------------------------------------------------------------------------
(* Independence of orders and of clients *)

\* C17. Attribution does not depend on the order in which orders are evaluated:
\* build_attribution over any permutation of the Order table yields the same set of
\* records, and the two records of an order are those build_attribution yields for the
\* order alone.
OrderEvaluationIndependent ==
    Attributed =>
        /\ \A p \in RowOrders(Len(orders)) :
               Range(build_attribution(Permuted(orders, p), sessions, lookback_days))
                   = Range(attrib)
        /\ \A o \in 1..Len(orders) :
               build_attribution(<<orders[o]>>, sessions, lookback_days)
                   = SubSeq(attrib, 2 * o - 1, 2 * o)

\* two orders of one client attributed to the same session
OrderEvaluationWitness ==
    /\ Attributed
    /\ Len(orders) = 2
    /\ EligibleOf(orders[1]) # {}
    /\ EligibleOf(orders[1]) = EligibleOf(orders[2])
    /\ \A a \in 1..Len(attrib) : NotNa(attrib[a].attributed_session_id)
    /\ attrib[1].attributed_session_id = attrib[3].attributed_session_id

\* dated and undated events of clients A and B around the 30 minute gap
WalkRows ==
    {View(Some(StrA), t, PlainUrl, None) : t \in {Ts(0), Ts(600), Ts(4201), BadTs}}
    \cup {View(Some(StrB), t, PlainUrl, None) : t \in {Ts(0), BadTs}}

InitWalk == InitWith(WalkRows, {DEFAULT_SESSION_TIMEOUT_MIN}, {DEFAULT_LOOKBACK_DAYS})
SpecWalk == InitWalk /\ [][Next]_vars

\* the events of client c, in the order of stg
OnlyClient(c) == SelectSeq(stg, LAMBDA e : e.client_id = Some(c))

\* C18. Clients are independent in sessionization: build_sessions over the events of
\* one client alone gives every event of the client the session_id, and the client the
\* Session rows, that build_sessions over the whole collection gives; the Session table
\* is the union of the per-client tables.
ClientsIndependent ==
    Sessionized =>
        /\ \A c \in ClientsSeen :
             /\ build_sessions_stg(OnlyClient(c), timeout_min) = OnlyClient(c)
             /\ build_sessions_sess(OnlyClient(c), timeout_min)
                    = SelectSeq(sessions, LAMBDA x : x.client_id = Some(c))
        /\ Range(sessions)
               = UNION {Range(build_sessions_sess(OnlyClient(c), timeout_min)) : c \in ClientsSeen}

\* events of client B between events of client A that form two sessions
ClientsIndependentWitness ==
    /\ Sessionized
    /\ Len(stg) = 3
    /\ stg[1].client_id = Some(StrA) /\ stg[2].client_id = Some(StrB)
    /\ stg[3].client_id = Some(StrA)
    /\ stg[1].session_id # stg[3].session_id
    /\ Len(sessions) = 3

----------------------------------------------------------------------------
(* The walk of the sessionizer over events with and without event_time *)

\* (event_time, event_id) order of the walk, events without event_time last
WalkEarlier(i, j) ==
    \/ NotNa(stg[i].ts) /\ IsNone(stg[j].ts)
    \/ NotNa(stg[i].ts) /\ NotNa(stg[j].ts) /\ Val(stg[i].ts) < Val(stg[j].ts)
    \/ stg[i].ts = stg[j].ts /\ stg[i].event_id < stg[j].event_id

\* the event of the same client right before event i in the walk (none: the empty set)
WalkPrev(i) ==
    {j \in 1..Len(stg) :
        /\ stg[j].client_id = stg[i].client_id
        /\ WalkEarlier(j, i)
        /\ ~\E k \in 1..Len(stg) :
               stg[k].client_id = stg[i].client_id /\ WalkEarlier(j, k) /\ WalkEarlier(k, i)}

\* the walk starts a session at event i
StartsSession(i) == \A j \in WalkPrev(i) : stg[j].session_id # stg[i].session_id

GapOverTimeout(j, i) ==
    /\ NotNa(stg[i].ts) /\ NotNa(stg[j].ts)
    /\ Val(stg[i].ts) - Val(stg[j].ts) > TimeoutSec

\* C20 as stated. For every input, unparsable timestamps included, a session starts at
\* an event exactly when the event is the first of its client in (event_time, event_id)
\* order or the gap since the previous event of the client exceeds the timeout.
SessionStartsOnlyOnGap ==
    Sessionized =>
        \A c \in ClientsSeen : \A i \in EventsOf(c) :
            StartsSession(i) <=>
                (WalkPrev(i) = {} \/ \E j \in WalkPrev(i) : GapOverTimeout(j, i))

\* C20 as amended. A session starts at an event exactly when the event is the first of
\* its client, or the gap since the previous event of the client exceeds the timeout,
\* or the previous event of the client has no parsable timestamp.
SessionStartsOnGapOrAfterNaT ==
    Sessionized =>
        \A c \in ClientsSeen : \A i \in EventsOf(c) :
            StartsSession(i) <=>
                \/ WalkPrev(i) = {}
                \/ \E j \in WalkPrev(i) : GapOverTimeout(j, i)
                \/ \E j \in WalkPrev(i) : IsNone(stg[j].ts)

\* a client with a dated event and two undated ones: the first undated event stays in
\* the session of the dated one, the second starts a session
SessionStartsWitness ==
    /\ Sessionized
    /\ Len(stg) = 3
    /\ \A i \in 1..3 : stg[i].client_id = Some(StrA)
    /\ NotNa(stg[1].ts) /\ IsNone(stg[2].ts) /\ IsNone(stg[3].ts)
    /\ stg[1].session_id = stg[2].session_id
    /\ stg[2].session_id # stg[3].session_id

----------------------------------------------------------------------------
(* A rerun of main() over the tables of a previous run, next to a monitoring run *)

\* the tables run_monitoring.run loads, in the order of its load_csv calls
MonitoredTables == <<"fct_sessions", "fct_orders", "fct_attribution">>

\* one load_csv call of the monitoring run returns: the file exists and is read as the
\* warehouse holds it at that moment
LoadCsv ==
    /\ Len(loaded) < Len(MonitoredTables)
    /\ warehouse[MonitoredTables[Len(loaded) + 1]] # "none"
    /\ loaded' = Append(loaded, warehouse[MonitoredTables[Len(loaded) + 1]])
    /\ UNCHANGED <<csvs, columns, timeout_min, lookback_days, pc, status, stg, sessions,
                   orders, attrib, written, warehouse>>

NextRerun ==
    \/ Next
    \/ LoadCsv

\* page views and purchases of one client, and a purchase of no client
RerunRows ==
    {View(Some(StrA), Ts(0), PlainUrl, GoogleRef),
     Buy(Some(StrA), Ts(600), StrT1, 100, PlainUrl),
     Buy(None, Ts(600), StrT2, 100, PlainUrl)}

InitRerun ==
    InitOver(SeqsUpTo(RerunRows, MaxEvents), {DEFAULT_SESSION_TIMEOUT_MIN},
             {DEFAULT_LOOKBACK_DAYS}, "previous")
SpecRerun == InitRerun /\ [][NextRerun]_vars

\* C11. Atomic replacement on rerun: while a rerun writes its four tables over those of
\* a previous run, the tables a concurrent monitoring run loads are all of the previous
\* run or all of the new run.
NoMixedRead == \A i, j \in 1..Len(loaded) : loaded[i] = loaded[j]

----------------------------------------------------------------------------
(* Events without event_time in the sessionizer and in the order resolver *)

\* dated and undated purchases of one transaction by one client, next to a page view
\* and an undated purchase of another client
UndatedRows ==
    {Buy(Some(StrA), t, StrT1, rev, PlainUrl) : t \in {Ts(0), BadTs}, rev \in {100, 250}}
    \cup {View(Some(StrA), Ts(4201), PlainUrl, None),
          Buy(Some(StrB), BadTs, StrT2, 70, PlainUrl)}

InitUndated == InitWith(UndatedRows, {DEFAULT_SESSION_TIMEOUT_MIN}, {DEFAULT_LOOKBACK_DAYS})
SpecUndated == InitUndated /\ [][Next]_vars

\* the 1-based index in the session_id of event i
SessionIndexOf(i) ==
    CHOOSE k \in 0..Len(stg) : stg[i].session_id = Some(MakeSessionId(stg[i].client_id, k))

UndatedPurchases(t) == {i \in PurchasesOf(t) : IsNone(stg[i].ts)}
LastUndatedPurchase(t) ==
    CHOOSE i \in UndatedPurchases(t) : \A j \in UndatedPurchases(t) : j <= i

\* C21. Unparsable timestamps are ordered at the same extreme in every stage: within a
\* client the sessionizer walks an undated event after every dated one, and undated
\* events in event_id order; among the purchase events of a transaction_id the order
\* resolver retains an undated one if there is any, the one with the largest event_id.
UndatedLast ==
    /\ Sessionized =>
          \A c \in ClientsSeen : \A i, j \in EventsOf(c) :
              /\ (NotNa(stg[i].ts) /\ IsNone(stg[j].ts)) => SessionIndexOf(i) <= SessionIndexOf(j)
              /\ (IsNone(stg[i].ts) /\ IsNone(stg[j].ts) /\ stg[i].event_id < stg[j].event_id)
                     => SessionIndexOf(i) < SessionIndexOf(j)
    /\ OrdersBuilt =>
          \A t \in TransactionsSeen :
              UndatedPurchases(t) # {} =>
                  /\ OrdersOf(t) # {}
                  /\ \A k \in OrdersOf(t) : orders[k] = OrderRow(stg[LastUndatedPurchase(t)])

\* two undated purchases of a transaction given before a dated one: the second undated
\* one wins the order and is in a session after that of the dated purchase
UndatedLastWitness ==
    /\ OrdersBuilt
    /\ Len(stg) = 3
    /\ \A i \in 1..3 : stg[i].client_id = Some(StrA) /\ stg[i].transaction_id = Some(StrT1)
    /\ IsNone(stg[1].ts) /\ IsNone(stg[2].ts) /\ NotNa(stg[3].ts)
    /\ stg[1].revenue # stg[2].revenue
    /\ SessionIndexOf(3) = 1 /\ SessionIndexOf(1) = 1 /\ SessionIndexOf(2) = 2
    /\ Len(orders) = 1
    /\ IsNone(orders[1].order_ts) /\ orders[1].revenue = stg[2].revenue

----------------------------------------------------------------------------
(* Session numbering *)

\* the session indices of the events of client c
IndicesOf(c) == {SessionIndexOf(i) : i \in EventsOf(c)}

\* C22. Session numbering: the session indices of a client with k sessions are exactly
\* 1..k, they do not decrease along the (event_time, event_id) walk, every session_id
\* is client_id + "-" + index, and no two Session rows share a session_id.
SessionNumbering ==
    Sessionized =>
        /\ \A c \in ClientsSeen :
             /\ \A i \in EventsOf(c) :
                    \E k \in 1..Len(stg) :
                        stg[i].session_id = Some(c \o StrDash \o IntToStr(k))
             /\ IndicesOf(c) = 1..Cardinality(SessionsOfClient(c))
             /\ \A i, j \in EventsOf(c) :
                    WalkEarlier(i, j) => SessionIndexOf(i) <= SessionIndexOf(j)
             /\ \A s \in SessionsOfClient(c) :
                    \E k \in IndicesOf(c) :
                        sessions[s].session_id = Some(c \o StrDash \o IntToStr(k))
        /\ \A s, t \in 1..Len(sessions) :
               s # t => sessions[s].session_id # sessions[t].session_id

\* client A with two sessions, given last first, and client B with one
SessionNumberingWitness ==
    /\ Sessionized
    /\ Len(stg) = 3
    /\ stg[1].session_id = Some(StrA \o StrDash \o IntToStr(2))
    /\ stg[2].session_id = Some(StrB \o StrDash \o IntToStr(1))
    /\ stg[3].session_id = Some(StrA \o StrDash \o IntToStr(1))
    /\ Len(sessions) = 3

----------------------------------------------------------------------------
(* What build_sessions writes back into the enriched stream *)

\* events of clients A and B, of a client named in the alias column, and of no client
FrameRows ==
    {View(Some(StrA), Ts(0), PlainUrl, None),
     View(Some(StrA), Ts(4201), GoogleUrl, None),
     View(Some(StrB), Ts(0), PlainUrl, GoogleRef),
     View(None, Ts(600), PlainUrl, None),
     Row(None, Some(StrA), Ts(600), "page_viewed", None, PlainUrl, None),
     Buy(None, BadTs, StrT1, 100, PlainUrl)}

InitFrame == InitWith(FrameRows, {DEFAULT_SESSION_TIMEOUT_MIN}, {DEFAULT_LOOKBACK_DAYS})
SpecFrame == InitFrame /\ [][Next]_vars

\* C23. Sessionization changes nothing in the enriched stream except session_id: the
\* frame build_sessions returns has one row per input event, in input order, with
\* event_id 0..N-1, every field of the input row unchanged, and a session_id that is
\* present exactly for the events with a present client_id.
SessionizationFrame ==
    [][(pc = "sessions" /\ pc' = "orders") =>
          /\ Len(stg') = Len(stg)
          /\ \A i \in 1..Len(stg) :
               /\ DOMAIN stg'[i] = DOMAIN stg[i] \cup {"session_id"}
               /\ \A f \in DOMAIN stg[i] : stg'[i][f] = stg[i][f]
               /\ stg'[i].event_id = i - 1
               /\ NotNa(stg'[i].session_id) <=> NotNa(stg[i].client_id)]_vars

\* three events given out of walk order, the second one of no client
SessionizationFrameWitness ==
    /\ pc = "orders"
    /\ Len(stg) = 3
    /\ stg[1].client_id = Some(StrB) /\ IsNone(stg[2].client_id)
    /\ stg[3].client_id = Some(StrA)
    /\ NotNa(stg[1].session_id) /\ IsNone(stg[2].session_id) /\ NotNa(stg[3].session_id)
    /\ \A i \in 1..3 : stg[i].event_id = i - 1

----------------------------------------------------------------------------
(* The Session rows: aggregates and acquisition snapshot *)

\* events of every counted name, with landing pages, referrers and user agents that
\* differ, two of them at the same instant, one undated, one of another client
SnapshotRows ==
    {View(Some(StrA), Ts(0), GoogleUrl, None),
     [View(Some(StrA), Ts(0), MetaUrl, PuffyRef) EXCEPT !.user_agent = Some({"iPhone", "Mobile"})],
     [Row(Some(StrA), None, Ts(600), "product_added_to_cart", None, PlainUrl, GoogleRef)
        EXCEPT !.user_agent = Some({"iPad", "Mobile"})],
     Row(Some(StrA), None, Ts(600), "checkout_started", None, PlainUrl, None),
     Buy(Some(StrA), Ts(4201), StrT1, 100, PlainUrl),
     View(Some(StrA), BadTs, MetaUrl, None),
     View(Some(StrB), Ts(0), PlainUrl, GoogleRef)}

InitSnapshot == InitWith(SnapshotRows, {DEFAULT_SESSION_TIMEOUT_MIN}, {DEFAULT_LOOKBACK_DAYS})
SpecSnapshot == InitSnapshot /\ [][Next]_vars

\* the events that carry the session_id of Session row s
AssignedTo(s) == {i \in 1..Len(stg) : stg[i].session_id = sessions[s].session_id}
NamedIn(s, name) == {i \in AssignedTo(s) : stg[i].event_name = name}
TimesIn(s) == {Val(stg[i].ts) : i \in {j \in AssignedTo(s) : NotNa(stg[j].ts)}}

\* C24. Session aggregates cover exactly the assigned events: every session_id of the
\* enriched output has exactly one Session row and every Session row has events; the
\* row counts its events, and those named page_viewed, product_added_to_cart,
\* checkout_started and checkout_completed; session_start and session_end are the
\* minimum and maximum event time of its events (absent when none has one); the event
\* counts sum to the number of events with a client_id.
AggregatesCoverAssigned ==
    Sessionized =>
        /\ \A i \in 1..Len(stg) :
               NotNa(stg[i].session_id) =>
                   Cardinality({s \in 1..Len(sessions) :
                                   sessions[s].session_id = stg[i].session_id}) = 1
        /\ \A s \in 1..Len(sessions) :
               /\ NotNa(sessions[s].session_id)
               /\ AssignedTo(s) # {}
               /\ sessions[s].events = Cardinality(AssignedTo(s))
               /\ sessions[s].pageviews = Cardinality(NamedIn(s, "page_viewed"))
               /\ sessions[s].add_to_cart = Cardinality(NamedIn(s, "product_added_to_cart"))
               /\ sessions[s].checkout_started = Cardinality(NamedIn(s, "checkout_started"))
               /\ sessions[s].purchases = Cardinality(NamedIn(s, "checkout_completed"))
               /\ IF TimesIn(s) = {}
                  THEN IsNone(sessions[s].session_start) /\ IsNone(sessions[s].session_end)
                  ELSE /\ NotNa(sessions[s].session_start) /\ NotNa(sessions[s].session_end)
                       /\ Val(sessions[s].session_start) \in TimesIn(s)
                       /\ Val(sessions[s].session_end) \in TimesIn(s)
                       /\ \A t \in TimesIn(s) :
                              /\ Val(sessions[s].session_start) <= t
                              /\ t <= Val(sessions[s].session_end)
        /\ SumEvents(Len(sessions))
               = Cardinality({i \in 1..Len(stg) : NotNa(stg[i].client_id)})

\* a session of a page view, a checkout_started and an undated event, 600 s long
AggregatesWitness ==
    /\ Sessionized
    /\ Len(stg) = 3
    /\ Len(sessions) = 1
    /\ sessions[1].events = 3
    /\ sessions[1].pageviews = 2 /\ sessions[1].checkout_started = 1
    /\ sessions[1].session_start = Some(0) /\ sessions[1].session_end = Some(600)
    /\ \E i \in 1..3 : IsNone(stg[i].ts)

\* the earliest event of Session row s under (event_time, event_id), undated events last
EarliestOf(s) ==
    CHOOSE i \in AssignedTo(s) : \A k \in AssignedTo(s) \ {i} : WalkEarlier(i, k)

\* C25. Acquisition snapshot: page_url, ref_domain, marketing_source, utm_* and
\* device_type of every Session row are those of the session's earliest event under
\* (event_time, event_id), the smallest event_id deciding among events at the earliest
\* instant; device_type is the enriched device_type of that event.
AcquisitionSnapshot ==
    Sessionized =>
        \A s \in 1..Len(sessions) :
            LET e == stg[EarliestOf(s)] IN
            /\ sessions[s].page_url = e.page_url
            /\ sessions[s].ref_domain = e.ref_domain
            /\ sessions[s].marketing_source = e.marketing_source
            /\ sessions[s].utm_source = e.utm_source
            /\ sessions[s].utm_medium = e.utm_medium
            /\ sessions[s].utm_campaign = e.utm_campaign
            /\ sessions[s].device_type = e.device_type

\* a session given latest event first, its two earliest events at the same instant:
\* the snapshot is that of the second row
AcquisitionWitness ==
    /\ Sessionized
    /\ Len(stg) = 3 /\ Len(sessions) = 1
    /\ stg[1].ts = Some(600) /\ stg[2].ts = Some(0) /\ stg[3].ts = Some(0)
    /\ stg[1].device_type = Some("tablet")
    /\ stg[2].marketing_source = "meta_ads" /\ stg[3].marketing_source = "google_ads"
    /\ sessions[1].marketing_source = "meta_ads"
    /\ sessions[1].device_type = Some("mobile")
    /\ sessions[1].utm_source = stg[2].utm_source /\ NotNa(sessions[1].utm_source)

----------------------------------------------------------------------------
(* The events orders come from *)

\* run_validation.validate_partition: the event names of the purchase mask
PurchaseNames == {"checkout_completed", "purchase"}

\* events of both purchase names and of another name, each carrying a transaction_id
PurchaseRows ==
    {Buy(Some(StrA), Ts(0), StrT1, 100, PlainUrl),
     Row(Some(StrA), None, Ts(600), "purchase", Payload(StrT2, 100), PlainUrl, None),
     Row(Some(StrA), None, Ts(600), "purchase", Payload(StrT1, 250), PlainUrl, None),
     Row(Some(StrA), None, Ts(4201), "page_viewed", Payload(StrT1, 999), PlainUrl, None),
     Row(Some(StrA), None, Ts(4201), "checkout_completed", None, PlainUrl, None),
     View(Some(StrA), Ts(0), PlainUrl, GoogleRef)}

InitPurchase == InitWith(PurchaseRows, {DEFAULT_SESSION_TIMEOUT_MIN}, {DEFAULT_LOOKBACK_DAYS})
SpecPurchase == InitPurchase /\ [][Next]_vars

\* the events of a purchase name that carry transaction id t
PurchaseTypeEvents(t) ==
    {i \in 1..Len(stg) : stg[i].event_name \in PurchaseNames /\ stg[i].transaction_id = Some(t)}

TransactionIds ==
    {stg[i].transaction_id : i \in {j \in 1..Len(stg) : NotNa(stg[j].transaction_id)}}

\* C26. Order source events: a transaction_id has an Order row exactly when an event
\* named checkout_completed or purchase carries it, and every Order row is the
\* projection of such an event; an event of another name produces and wins no order.
OrdersFromPurchaseEvents ==
    OrdersBuilt =>
        /\ \A tid \in TransactionIds :
               (\E k \in 1..Len(orders) : orders[k].transaction_id = tid)
                   <=> PurchaseTypeEvents(Val(tid)) # {}
        /\ \A k \in 1..Len(orders) :
               /\ NotNa(orders[k].transaction_id)
               /\ \E i \in PurchaseTypeEvents(Val(orders[k].transaction_id)) :
                      orders[k] = OrderRow(stg[i])

====
